---- MODULE Spec2Model ----
(***************************************************************************)
(* infra-buddy: context resolution, execution-plan construction, fargate   *)
(* cpu/memory normalisation and listener rule-priority allocation.         *)
(*                                                                         *)
(* Python strings are modelled as sequences of one-character strings, so   *)
(* that formatting, parsing and lexicographic comparison are computed.     *)
(* Python values are tagged records: an int, a str, or None.               *)
(***************************************************************************)
EXTENDS Integers, Sequences, FiniteSets, TLC

\* ------------------------------------------------------------------ bounds
MaxMods == 2
MaxMonitorSteps == 1
MaxRules == 3
MaxText == 5
MaxStacks == 100

\* ------------------------------------------------------------ python values
IntV(i) == [t |-> "int", n |-> i, s |-> <<>>]
StrV(str) == [t |-> "str", n |-> 0, s |-> str]
None == [t |-> "none", n |-> 0, s |-> <<>>]

\* code-point order of the characters that are compared by the model
Alphabet == <<"-", "0", "1", "2", "3", "4", "5", "6", "7", "8", "9",
              "C", "P", "a", "b", "c", "d", "e", "f", "i", "l", "o", "p",
              "r", "s", "t", "u">>
Ord(c) == CHOOSE i \in 1..Len(Alphabet) : Alphabet[i] = c

Digits == <<"0", "1", "2", "3", "4", "5", "6", "7", "8", "9">>
IsDigit(c) == \E i \in 1..10 : Digits[i] = c
DigitVal(c) == (CHOOSE i \in 1..10 : Digits[i] = c) - 1

\* str.lower()
LowerChar(c) == IF c = "C" THEN "c" ELSE IF c = "P" THEN "p" ELSE c
Lower(str) == [i \in 1..Len(str) |-> LowerChar(str[i])]

\* python's str < str: lexicographic by code point, a proper prefix is smaller
RECURSIVE StrLess(_, _)
StrLess(a, b) ==
    IF b = <<>> THEN FALSE
    ELSE IF a = <<>> THEN TRUE
    ELSE IF Head(a) # Head(b) THEN Ord(Head(a)) < Ord(Head(b))
    ELSE StrLess(Tail(a), Tail(b))

\* str(int) / f"{int}": the decimal numeral
RECURSIVE NatToStr(_)
NatToStr(i) ==
    IF i < 10 THEN <<Digits[i + 1]>>
    ELSE NatToStr(i \div 10) \o <<Digits[(i % 10) + 1]>>
IntToStr(i) == IF i < 0 THEN <<"-">> \o NatToStr(0 - i) ELSE NatToStr(i)

\* int(str) for a numeral made of decimal digits
IsNumeral(str) == Len(str) > 0 /\ \A i \in 1..Len(str) : IsDigit(str[i])
RECURSIVE StrToNat(_)
StrToNat(str) ==
    IF str = <<>> THEN 0
    ELSE 10 * StrToNat(SubSeq(str, 1, Len(str) - 1)) + DigitVal(str[Len(str)])

\* f"{value}"
FormatValue(v) == IF v.t = "int" THEN IntToStr(v.n) ELSE v.s

RECURSIVE Concat(_)
Concat(parts) == IF parts = <<>> THEN <<>> ELSE Head(parts) \o Concat(Tail(parts))

\* ------------------------------------------------------------ string literals
S_default == <<"d", "e", "f", "a", "u", "l", "t">>
S_true == <<"t", "r", "u", "e">>
S_false == <<"f", "a", "l", "s", "e">>
S_prod == <<"p", "r", "o", "d">>
S_Ci == <<"C", "i">>
S_foo == <<"f", "o", "o">>
S_foo_bar == <<"f", "o", "o", "-", "b", "a", "r">>
S_api == <<"a", "p", "i">>
S_cache == <<"c", "a", "c", "h", "e">>
S_db == <<"d", "b">>
S_us == <<"u", "s">>
S_date == <<"J", "a", "n", "_", "0", "1", "_", "2", "0", "2", "0", "_",
            "T", "i", "m", "e", "_", "0", "0", "_", "0", "0">>

S_dash == <<"-">>
S_slash == <<"/">>
S_vpc == <<"-", "v", "p", "c">>
S_cf_resources == <<"-", "c", "l", "o", "u", "d", "f", "o", "r", "m", "a",
    "t", "i", "o", "n", "-", "d", "e", "p", "l", "o", "y", "-", "r", "e",
    "s", "o", "u", "r", "c", "e", "s">>
S_s3_url == <<"h", "t", "t", "p", "s", ":", "/", "/", "s", "3", "-">>
S_amazonaws == <<".", "a", "m", "a", "z", "o", "n", "a", "w", "s", ".",
    "c", "o", "m", "/">>
S_cluster == <<"-", "c", "l", "u", "s", "t", "e", "r">>
S_resources == <<"-", "r", "e", "s", "o", "u", "r", "c", "e", "s">>
S_change_set == <<"-", "d", "e", "p", "l", "o", "y", "-", "c", "l", "o",
    "u", "d", "f", "o", "r", "m", "a", "t", "i", "o", "n", "-", "c", "h",
    "a", "n", "g", "e", "-", "s", "e", "t">>

\* ------------------------------------------------------------------ context
Absent == [t |-> "absent", n |-> 0, s |-> <<>>]

DOCKER_REGISTRY == "DOCKER_REGISTRY_URL"
ROLE == "ROLE"
APPLICATION == "APPLICATION"
ENVIRONMENT == "ENVIRONMENT"
REGION == "REGION"
SKIP_ECS == "SKIP_ECS"
built_in == <<DOCKER_REGISTRY, ROLE, APPLICATION, ENVIRONMENT, REGION, SKIP_ECS>>

\* a format template is a sequence of literal parts and {NAME} references
Lit(str) == [ref |-> "", lit |-> str]
Ref(name) == [ref |-> name, lit |-> <<>>]

env_variables == <<
    [variable |-> "VPCAPP", template |-> <<Ref("VPCAPP")>>],
    [variable |-> "DEPLOY_DATE", template |-> <<Ref("DEPLOY_DATE")>>],
    [variable |-> "STACK_NAME",
     template |-> <<Ref("ENVIRONMENT"), Lit(S_dash), Ref("APPLICATION"), Lit(S_dash), Ref("ROLE")>>],
    [variable |-> "EnvName", template |-> <<Ref("STACK_NAME")>>],
    [variable |-> "ECS_SERVICE_STACK_NAME", template |-> <<Ref("STACK_NAME")>>],
    [variable |-> "VPC_STACK_NAME",
     template |-> <<Ref("ENVIRONMENT"), Lit(S_dash), Ref("VPCAPP"), Lit(S_vpc)>>],
    [variable |-> "CF_BUCKET_NAME",
     template |-> <<Ref("ENVIRONMENT"), Lit(S_dash), Ref("VPCAPP"), Lit(S_cf_resources)>>],
    [variable |-> "CF_DEPLOY_RESOURCE_PATH",
     template |-> <<Ref("STACK_NAME"), Lit(S_slash), Ref("DEPLOY_DATE")>>],
    [variable |-> "CF_BUCKET_URL",
     template |-> <<Lit(S_s3_url), Ref("REGION"), Lit(S_amazonaws), Ref("CF_BUCKET_NAME")>>],
    [variable |-> "CLUSTER_STACK_NAME",
     template |-> <<Ref("ENVIRONMENT"), Lit(S_dash), Ref("APPLICATION"), Lit(S_cluster)>>],
    [variable |-> "RESOURCE_STACK_NAME",
     template |-> <<Ref("ENVIRONMENT"), Lit(S_dash), Ref("APPLICATION"), Lit(S_dash), Ref("ROLE"),
                    Lit(S_resources)>>],
    [variable |-> "ECS_SERVICE_RESOURCE_STACK_NAME", template |-> <<Ref("RESOURCE_STACK_NAME")>>],
    [variable |-> "KEY_NAME", template |-> <<Ref("ENVIRONMENT"), Lit(S_dash), Ref("APPLICATION")>>],
    [variable |-> "CHANGE_SET_NAME", template |-> <<Ref("STACK_NAME"), Lit(S_change_set)>>] >>

\* the names a context dictionary may hold in the model
Keys == {built_in[i] : i \in 1..Len(built_in)}
        \cup {env_variables[i].variable : i \in 1..Len(env_variables)}
        \cup {"USE_FARGATE", "TASK_CPU", "TASK_SOFT_MEMORY", "IMAGE"}
        \cup {"A", "AA"}

EmptyDict == [k \in Keys |-> Absent]
\* dict.update(other)
Update(d, other) == [k \in Keys |-> IF other[k] # Absent THEN other[k] ELSE d[k]]
\* dict.get(key, None)
Get(d, key) == IF d[key] = Absent THEN None ELSE d[key]

\* mutant: a missing name is formatted as the empty string
FormatOk_lenient(template, d) == TRUE
\* str.format(**mapping): KeyError when a referenced name is missing
FormatOk(template, d) ==
    \A i \in 1..Len(template) : template[i].ref # "" => d[template[i].ref] # Absent
Format(template, d) ==
    Concat([i \in 1..Len(template) |->
              IF template[i].ref = "" THEN template[i].lit
              ELSE FormatValue(d[template[i].ref])])

\* application[:application.find('-')] when '-' occurs, else application
HasDash(str) == \E i \in 1..Len(str) : str[i] = "-"
FindDash(str) == CHOOSE i \in 1..Len(str) : str[i] = "-" /\ \A j \in 1..(i - 1) : str[j] # "-"
\* mutant: the cut keeps the '-' it found
CutAtDash_keep_dash(str) == IF HasDash(str) THEN SubSeq(str, 1, FindDash(str)) ELSE str
CutAtDash(str) == IF HasDash(str) THEN SubSeq(str, 1, FindDash(str) - 1) ELSE str

\* ------------------------------------------------------- service definition
\* ServiceDefinition.__init__ on a schema-valid service.json document:
\* json.env_parameters is a function whose domain is the set of environments
\* that have an "<environment>-deployment-parameters" object; json.registry is
\* Absent when the document has no "registry-url".
\* mutant: the override object of the environment replaces the base mapping
ServiceDefinition_replaced(json, environment) ==
    [application |-> json.application,
     role |-> json.role,
     service_type |-> json.service_type,
     docker_registry |-> IF json.registry = Absent THEN StrV(<<>>) ELSE json.registry,
     deployment_parameters |->
        IF environment \in DOMAIN json.env_parameters
        THEN json.env_parameters[environment]
        ELSE json.deployment_parameters,
     service_modifications |-> json.modifications]

ServiceDefinition(json, environment) ==
    [application |-> json.application,
     role |-> json.role,
     service_type |-> json.service_type,
     docker_registry |-> IF json.registry = Absent THEN StrV(<<>>) ELSE json.registry,
     deployment_parameters |->
        IF environment \in DOMAIN json.env_parameters
        THEN Update(json.deployment_parameters, json.env_parameters[environment])
        ELSE json.deployment_parameters,
     service_modifications |-> json.modifications]

\* ------------------------------------------------------------ deploy context
\* mutant: the defaults file is read after the process environment
DeployContextInit_environ_first(defaults, environ, environment) ==
    Update(Update([EmptyDict EXCEPT ![ENVIRONMENT] = StrV(Lower(environment))], environ),
           defaults)

\* DeployContext.__init__ with _initalize_defaults
DeployContextInit(defaults, environ, environment) ==
    Update(Update([EmptyDict EXCEPT ![ENVIRONMENT] = StrV(Lower(environment))], defaults),
           environ)

\* _initialize_artifact_directory
_initialize_artifact_directory(d, json, image) ==
    LET service_definition == ServiceDefinition(json, d[ENVIRONMENT].s)
        d1 == [d EXCEPT ![APPLICATION] = StrV(service_definition.application),
                        ![ROLE] = StrV(service_definition.role),
                        ![DOCKER_REGISTRY] = service_definition.docker_registry]
        d2 == Update(d1, service_definition.deployment_parameters)
    IN  [dict |-> IF image = Absent THEN d2 ELSE [d2 EXCEPT !["IMAGE"] = image],
         service_definition |-> service_definition]

\* the loop over env_variables, from entry i on; st = [raised, dict, attr]
RECURSIVE EvalAliases(_, _)
EvalAliases(i, st) ==
    IF i > Len(env_variables) \/ st.raised THEN st
    ELSE LET variable == env_variables[i].variable
             template == env_variables[i].template
         IN  IF ~FormatOk(template, st.dict)
             THEN [st EXCEPT !.raised = TRUE]
             ELSE LET evaluated_template == StrV(Format(template, st.dict))
                  IN  EvalAliases(i + 1,
                        [st EXCEPT !.dict[variable] = evaluated_template,
                                   !.attr[variable] = evaluated_template])

\* _initialize_environment_variables; attr[NAME] stands for the attribute name.lower()
_initialize_environment_variables(d, now) ==
    IF d[APPLICATION] = Absent THEN [raised |-> TRUE, dict |-> d, attr |-> EmptyDict]
    ELSE LET application == FormatValue(d[APPLICATION])
             d1 == [d EXCEPT !["VPCAPP"] = StrV(CutAtDash(application)),
                             !["DEPLOY_DATE"] = StrV(now)]
             a1 == [k \in Keys |->
                      IF \E i \in 1..Len(built_in) : built_in[i] = k THEN Get(d1, k) ELSE Absent]
         IN  EvalAliases(1, [raised |-> FALSE, dict |-> d1, attr |-> a1])

\* DeployContext.create_deploy_context_artifact
create_deploy_context_artifact(json, image, environment, defaults, environ, now) ==
    LET d0 == DeployContextInit(defaults, environ, environment)
        art == _initialize_artifact_directory(d0, json, image)
        ev == _initialize_environment_variables(art.dict, now)
    IN  [raised |-> ev.raised, dict |-> ev.dict, attr |-> ev.attr,
         service_definition |-> art.service_definition]

\* mutant: the name of the modification's resource stack is used
generate_modification_stack_name_resources(ctx, mod_name) ==
    Format(<<Ref("ENVIRONMENT"), Lit(S_dash), Ref("APPLICATION"), Lit(S_dash), Ref("ROLE"),
             Lit(S_dash), Lit(mod_name), Lit(S_resources)>>, ctx.dict)

\* generate_modification_stack_name
generate_modification_stack_name(ctx, mod_name) ==
    Format(<<Ref("ENVIRONMENT"), Lit(S_dash), Ref("APPLICATION"), Lit(S_dash), Ref("ROLE"),
             Lit(S_dash), Lit(mod_name)>>, ctx.dict)

\* generate_modification_resource_stack_name
generate_modification_resource_stack_name(ctx, mod_name) ==
    Format(<<Ref("ENVIRONMENT"), Lit(S_dash), Ref("APPLICATION"), Lit(S_dash), Ref("ROLE"),
             Lit(S_dash), Lit(mod_name), Lit(S_resources)>>, ctx.dict)

\* ---------------------------------------------------------- template lookup
\* The template manager and the templates are collaborators.  A lookup table
\* tm gives, for the service type and for each modification name, how the
\* lookup ends ("template", "none": None is returned, "raise": the lookup
\* raises), whether the template has a monitor definition and how many steps
\* its monitor artifact's plan has; tm.resource tells whether
\* aws-resources.template is located in the artifact directory.
Template(type, name, entry) ==
    [type |-> type, name |-> name, has_monitor |-> entry.has_monitor,
     monitor_steps |-> entry.monitor_steps]
NoTemplate == [type |-> "None", name |-> <<>>, has_monitor |-> FALSE, monitor_steps |-> 0]

get_known_service(tm, service_type) ==
    [raised |-> tm.service.found = "raise",
     template |-> IF tm.service.found = "template"
                  THEN Template("service", service_type, tm.service) ELSE NoTemplate]

get_resource_service(tm) ==
    IF tm.resource THEN [type |-> "resource", name |-> <<>>, has_monitor |-> FALSE,
                         monitor_steps |-> 0]
    ELSE NoTemplate

get_known_service_modification(tm, service_type, mod) ==
    [raised |-> tm.modification[mod].found = "raise",
     template |-> IF tm.modification[mod].found = "template"
                  THEN Template("modification", mod, tm.modification[mod]) ELSE NoTemplate]

\* template.get_monitor_artifact().generate_execution_plan(deploy_ctx)
MonitorPlan(template, ctx) ==
    [j \in 1..template.monitor_steps |->
        [kind |-> "Monitor", stack_name |-> <<>>, template |-> template, deploy_ctx |-> ctx]]

CloudFormationDeploy(stack_name, template, ctx) ==
    [kind |-> "CloudFormationDeploy", stack_name |-> stack_name, template |-> template,
     deploy_ctx |-> ctx]

\* ------------------------------------------------------------ execution plan
NoPlan == <<>>
\* mutant: the steps built so far are handed back when a lookup fails
Raised_partial(ret) == [raised |-> TRUE, ret |-> ret, returned |-> ret]

\* an exception leaves the function: the local list ret is dropped
Raised(ret) == [raised |-> TRUE, ret |-> ret, returned |-> NoPlan]
Returned(ret) == [raised |-> FALSE, ret |-> ret, returned |-> ret]

\* mutant: a modification's monitor plan is placed before its own step
RECURSIVE ModificationLoop_monitor_first(_, _, _, _, _)
ModificationLoop_monitor_first(sd, tm, ctx, i, ret) ==
    IF i > Len(sd.service_modifications) THEN Returned(ret)
    ELSE LET mod == sd.service_modifications[i]
             lk == get_known_service_modification(tm, sd.service_type, mod)
             template == lk.template
             step == CloudFormationDeploy(generate_modification_stack_name(ctx, mod),
                                          template, ctx)
         IN  IF lk.raised THEN Raised(ret)
             ELSE IF template = NoTemplate THEN Raised(Append(ret, step))
             ELSE ModificationLoop_monitor_first(sd, tm, ctx, i + 1,
                    IF template.has_monitor
                    THEN Append(ret \o MonitorPlan(template, ctx), step)
                    ELSE Append(ret, step))

\* the for loop over self.service_modifications, from index i on
RECURSIVE ModificationLoop(_, _, _, _, _)
ModificationLoop(sd, tm, ctx, i, ret) ==
    IF i > Len(sd.service_modifications) THEN Returned(ret)
    ELSE LET mod == sd.service_modifications[i]
             lk == get_known_service_modification(tm, sd.service_type, mod)
             template == lk.template
             ret1 == Append(ret, CloudFormationDeploy(
                                   generate_modification_stack_name(ctx, mod), template, ctx))
         IN  IF lk.raised THEN Raised(ret)
             ELSE IF template = NoTemplate THEN Raised(ret1)
             ELSE ModificationLoop(sd, tm, ctx, i + 1,
                    IF template.has_monitor THEN ret1 \o MonitorPlan(template, ctx) ELSE ret1)

\* mutant: the resource step is appended before the main template's monitor plan
generate_execution_plan_resource_first(sd, tm, ctx) ==
    LET lk == get_known_service(tm, sd.service_type)
        template == lk.template
        ret0 == <<CloudFormationDeploy(ctx.attr["STACK_NAME"].s, template, ctx)>>
        resource_deploy == get_resource_service(tm)
        ret1 == IF resource_deploy # NoTemplate
                THEN Append(ret0, CloudFormationDeploy(ctx.attr["RESOURCE_STACK_NAME"].s,
                                                       resource_deploy, ctx))
                ELSE ret0
        ret2 == IF template.has_monitor THEN ret1 \o MonitorPlan(template, ctx) ELSE ret1
    IN  IF lk.raised THEN Raised(<<>>)
        ELSE IF template = NoTemplate THEN Raised(ret0)
        ELSE ModificationLoop(sd, tm, ctx, 1, ret2)

generate_execution_plan(sd, tm, ctx) ==
    LET lk == get_known_service(tm, sd.service_type)
        template == lk.template
        ret0 == <<CloudFormationDeploy(ctx.attr["STACK_NAME"].s, template, ctx)>>
        ret1 == IF template.has_monitor THEN ret0 \o MonitorPlan(template, ctx) ELSE ret0
        resource_deploy == get_resource_service(tm)
        ret2 == IF resource_deploy # NoTemplate
                THEN Append(ret1, CloudFormationDeploy(ctx.attr["RESOURCE_STACK_NAME"].s,
                                                       resource_deploy, ctx))
                ELSE ret1
    IN  IF lk.raised THEN Raised(<<>>)
        ELSE IF template = NoTemplate THEN Raised(ret0)
        ELSE ModificationLoop(sd, tm, ctx, 1, ret2)

\* ------------------------------------------------------------------ fargate
\* [f"{i * 1024}" for i in range(a, b)]
MemoryRange(a, b) == [i \in 1..(b - a) |-> IntToStr((a + i - 1) * 1024)]

_valid_fargate_resources ==
    [cpu \in {256, 512, 1024, 2048, 4096} |->
        CASE cpu = 256 -> <<IntToStr(512), IntToStr(1024), IntToStr(2048)>>
          [] cpu = 512 -> MemoryRange(1, 5)
          [] cpu = 1024 -> MemoryRange(2, 9)
          [] cpu = 2048 -> MemoryRange(4, 17)
          [] cpu = 4096 -> MemoryRange(8, 31)]

_valid_fargate_memories ==
    UNION {{_valid_fargate_resources[cpu][i] : i \in 1..Len(_valid_fargate_resources[cpu])} :
             cpu \in DOMAIN _valid_fargate_resources}

\* mutant: integer division, the quotient is not rounded up
CeilDiv1024_floor(v) == v \div 1024

\* math.ceil(_value / 1024.0)
CeilDiv1024(v) == (v + 1023) \div 1024

\* mutant: the rounded value is not capped at 30720
_get_valid_fargate_memory_uncapped(_value) ==
    IF _value <= 512 THEN StrV(IntToStr(512))
    ELSE IF _value < 1024 THEN StrV(IntToStr(1024))
    ELSE IntV(CeilDiv1024(_value) * 1024)

_get_valid_fargate_memory(_value) ==
    IF _value <= 512 THEN StrV(IntToStr(512))
    ELSE IF _value < 1024 THEN StrV(IntToStr(1024))
    ELSE LET memory == CeilDiv1024(_value) * 1024
         IN  IF memory > 30720 THEN IntV(30720) ELSE IntV(memory)

\* mutant: the tier boundaries are exclusive
_get_valid_fargate_cpu_exclusive(_value) ==
    IF _value < 256 THEN 256
    ELSE IF _value < 512 THEN 512
    ELSE IF _value < 1024 THEN 1024
    ELSE IF _value < 2048 THEN 2048
    ELSE 4096

_get_valid_fargate_cpu(_value) ==
    IF _value <= 256 THEN 256
    ELSE IF _value <= 512 THEN 512
    ELSE IF _value <= 1024 THEN 1024
    ELSE IF _value <= 2048 THEN 2048
    ELSE IF _value <= 4096 THEN 4096
    ELSE 4096

\* key in _valid_fargate_resources (int keys) / value in _valid_fargate_memories (str members)
InResources(v) == v.t = "int" /\ v.n \in DOMAIN _valid_fargate_resources
InMemories(v) == v.t = "str" /\ v.s \in _valid_fargate_memories
InList(v, list) == v.t = "str" /\ \E i \in 1..Len(list) : list[i] = v.s

\* mutant: the memory found in the context is not checked against the table
_validate_fargate_resource_allocation_unchecked(cpu, memory, d) ==
    LET discovered_cpu == Get(d, "TASK_CPU")
    IN  IF cpu = None
        THEN IF ~InResources(discovered_cpu) THEN "skipped"
             ELSE IF InList(memory, _valid_fargate_resources[discovered_cpu.n]) THEN "ok"
             ELSE "raise"
        ELSE "skipped"

\* _validate_fargate_resource_allocation: "skipped" and "ok" return normally,
\* "raise" is print_utility.error(..., raise_exception=True)
_validate_fargate_resource_allocation(cpu, memory, d) ==
    LET discovered_cpu == Get(d, "TASK_CPU")
        discovered_memory == Get(d, "TASK_SOFT_MEMORY")
        check(c, m) == IF InList(m, _valid_fargate_resources[c.n]) THEN "ok" ELSE "raise"
    IN  IF cpu = None
        THEN IF ~InResources(discovered_cpu) THEN "skipped" ELSE check(discovered_cpu, memory)
        ELSE IF memory = None
        THEN IF ~InMemories(discovered_memory) THEN "skipped" ELSE check(cpu, discovered_memory)
        ELSE check(cpu, memory)

_using_fargate(d) ==
    (IF d["USE_FARGATE"] = Absent THEN StrV(S_false) ELSE d["USE_FARGATE"]) = StrV(S_true)

\* results of the transforms: candidate is the normalised value (the local cpu
\* or memory), value is what the call returns (None: nothing is returned)
transform_fargate_cpu(d, _value) ==
    IF _using_fargate(d)
    THEN LET cpu == IntV(_get_valid_fargate_cpu(_value))
             validation == _validate_fargate_resource_allocation(cpu, None, d)
         IN  [raised |-> validation = "raise", candidate |-> cpu,
              value |-> IF validation = "raise" THEN None ELSE cpu, validation |-> validation]
    ELSE [raised |-> FALSE, candidate |-> None, value |-> None, validation |-> "none"]

transform_fargate_memory(d, _value) ==
    IF _using_fargate(d)
    THEN IF _value.t = "str" /\ _value.s \notin _valid_fargate_memories
         THEN [raised |-> TRUE, candidate |-> None, value |-> None, validation |-> "none"]
         ELSE LET memory == IF _value.t = "str" THEN _value
                            ELSE StrV(FormatValue(_get_valid_fargate_memory(_value.n)))
                  validation == _validate_fargate_resource_allocation(None, memory, d)
              IN  [raised |-> validation = "raise", candidate |-> memory,
                   value |-> IF validation = "raise" THEN None ELSE memory,
                   validation |-> validation]
    ELSE [raised |-> FALSE, candidate |-> None, value |-> None, validation |-> "none"]

\* ------------------------------------------------------------ rule priority
\* the sort key (isinstance(v['Priority'], str), v['Priority']) and its order:
\* tuples compare by the first component (False < True), then by the value
\* (str with str lexicographically, int with int numerically)
KeyLess(a, b) ==
    LET a_str == a.Priority.t = "str"
        b_str == b.Priority.t = "str"
    IN  IF a_str # b_str THEN b_str
        ELSE IF a_str THEN StrLess(a.Priority.s, b.Priority.s)
        ELSE a.Priority.n < b.Priority.n

\* sorted(rules, key=..., reverse=True): descending, rules with equal keys stay
\* in the order they have in rules; pos[i] is the place of rules[i] in the result
SortedReverse(rules) ==
    LET n == Len(rules)
        pos == [i \in 1..n |->
                  1 + Cardinality({j \in 1..n : KeyLess(rules[i], rules[j])})
                    + Cardinality({j \in 1..(i - 1) : rules[j].Priority = rules[i].Priority})]
    IN  [k \in 1..n |-> rules[CHOOSE i \in 1..n : pos[i] = k]]

\* int(priority_)
ToInt(v) == IF v.t = "int" THEN v.n ELSE StrToNat(v.s)

\* _get_max_priority: the first rule of the sorted list whose priority is not
\* "default"; None when every rule is "default"
RECURSIVE FirstNonDefault(_)
FirstNonDefault(rules) ==
    IF rules = <<>> THEN None
    ELSE IF Head(rules).Priority # StrV(S_default) THEN IntV(ToInt(Head(rules).Priority))
    ELSE FirstNonDefault(Tail(rules))
_get_max_priority(rules) == FirstNonDefault(SortedReverse(rules))

\* _get_cluster_stack_export_value: an exception of get_export_value is caught
\* and logged, and the finally clause returns val (None)
_get_cluster_stack_export_value(exported, fault) ==
    IF fault = "get_export_value" THEN None
    ELSE IF exported THEN StrV(<<"a", "r", "n">>) ELSE None

\* mutant: the priority is recomputed from the listener rules for an existing stack too
calculate_rule_priority_recomputed(stored, exported, listener_rules, fault) ==
    LET listenerArn == _get_cluster_stack_export_value(exported, fault)
        rules == IF listenerArn # None THEN listener_rules ELSE <<>>
        only_default == Len(rules) = 1 /\ rules[1].Priority = StrV(S_default)
        max == _get_max_priority(rules)
        swallowed == fault = "get_export_value"
        result(raised, value, described, sw) ==
            [raised |-> raised, value |-> value, described |-> described, swallowed |-> sw]
    IN  IF fault = "does_stack_exist" THEN result(TRUE, None, FALSE, FALSE)
        ELSE IF listenerArn # None /\ fault = "describe_rules"
             THEN result(TRUE, None, TRUE, swallowed)
        ELSE IF Len(rules) = 0 \/ only_default
             THEN result(FALSE, StrV(IntToStr(30 + 1)), listenerArn # None, swallowed)
        ELSE IF max = None THEN result(TRUE, None, TRUE, swallowed)
        ELSE result(FALSE, StrV(IntToStr(max.n + 1)), TRUE, swallowed)

\* calculate_rule_priority against the collaborators' state:
\*   stored   - the stack's RulePriority parameter, Absent when the stack does not exist
\*   exported - whether the cluster stack exports ListenerARN
\*   listener_rules - what describe_rules returns for the listener
\*   fault    - the collaborator call that fails in this run ("none" for no failure)
calculate_rule_priority(stored, exported, listener_rules, fault) ==
    LET listenerArn == _get_cluster_stack_export_value(exported, fault)
        rules == IF listenerArn # None THEN listener_rules ELSE <<>>
        only_default == Len(rules) = 1 /\ rules[1].Priority = StrV(S_default)
        max == _get_max_priority(rules)
        swallowed == fault = "get_export_value"
        result(raised, value, described, sw) ==
            [raised |-> raised, value |-> value, described |-> described, swallowed |-> sw]
    IN  IF fault = "does_stack_exist" THEN result(TRUE, None, FALSE, FALSE)
        ELSE IF stored # Absent THEN result(FALSE, stored, FALSE, FALSE)
        ELSE IF listenerArn # None /\ fault = "describe_rules"
             THEN result(TRUE, None, TRUE, swallowed)
        ELSE IF Len(rules) = 0 \/ only_default
             THEN result(FALSE, StrV(IntToStr(30 + 1)), listenerArn # None, swallowed)
        ELSE IF max = None THEN result(TRUE, None, TRUE, swallowed)
        ELSE result(FALSE, StrV(IntToStr(max.n + 1)), TRUE, swallowed)

\* ==================================================================== state
VARIABLES
    deploy_ctx,        \* the DeployContext: [dict, attr, service_definition]
    template_manager,  \* the context's template manager (the lookup table above)
    stacks,            \* stack name -> stored RulePriority parameter, Absent when not deployed
    exported,          \* whether the cluster stack exports ListenerARN
    rules,             \* the listener's rules, as describe_rules returns them
    last               \* the last operation: its inputs and its outcome
vars == <<deploy_ctx, template_manager, stacks, exported, rules, last>>

ModNames == {S_cache, S_db}
SeqsUpTo(S, n) == UNION {[1..k -> S] : k \in 0..n}

\* service.json documents and the other inputs of context creation
Param(use_fargate, task_cpu, task_soft_memory) ==
    [EmptyDict EXCEPT !["USE_FARGATE"] = use_fargate, !["TASK_CPU"] = task_cpu,
                      !["TASK_SOFT_MEMORY"] = task_soft_memory]
DeploymentParameters ==
    {Param(f, c, m) : f \in {StrV(S_true), StrV(S_false)},
                      c \in {Absent, IntV(256), IntV(1024), StrV(IntToStr(256))},
                      m \in {Absent, StrV(IntToStr(512)), StrV(IntToStr(4096)), IntV(2048)}}
Names == {[environment |-> S_prod, application |-> S_foo],
          [environment |-> S_Ci, application |-> S_foo_bar]}
ServiceJson(names, params, mods) ==
    [application |-> names.application, role |-> S_api, service_type |-> <<"e", "c", "s">>,
     registry |-> StrV(<<>>), deployment_parameters |-> params, env_parameters |-> <<>>,
     modifications |-> mods]
Defaults == [EmptyDict EXCEPT ![REGION] = StrV(S_us)]

Context(names, params, mods) ==
    LET c == create_deploy_context_artifact(ServiceJson(names, params, mods), Absent,
                                            names.environment, Defaults, EmptyDict, S_date)
    IN  [dict |-> c.dict, attr |-> c.attr, service_definition |-> c.service_definition]

Entries ==
    {[found |-> f, has_monitor |-> FALSE, monitor_steps |-> 0] : f \in {"template", "none", "raise"}}
    \cup {[found |-> "template", has_monitor |-> TRUE, monitor_steps |-> k] :
            k \in 0..MaxMonitorSteps}
PlainEntry == [found |-> "template", has_monitor |-> FALSE, monitor_steps |-> 0]
TemplateManagers == [service : Entries, resource : BOOLEAN, modification : [ModNames -> Entries]]
PlainTemplateManager ==
    [service |-> PlainEntry, resource |-> FALSE, modification |-> [m \in ModNames |-> PlainEntry]]

StackNames == {<<"a">>, <<"b">>}
DefaultRule == [Priority |-> StrV(S_default)]

\* the world of the rule-priority collaborators before any deployment
InitWorld ==
    /\ stacks = [n \in StackNames |-> Absent]
    /\ exported = TRUE
    /\ rules = <<DefaultRule>>
    /\ last = [op |-> "init"]

\* plan construction: every service definition and template manager
Init ==
    /\ \E names \in Names, mods \in SeqsUpTo(ModNames, MaxMods) :
          deploy_ctx = Context(names, Param(Absent, Absent, Absent), mods)
    /\ template_manager \in TemplateManagers
    /\ InitWorld

\* fargate transforms: every setting of the fargate deployment parameters
InitFargate ==
    /\ \E params \in DeploymentParameters :
          deploy_ctx = Context(CHOOSE n \in Names : n.environment = S_prod, params, <<>>)
    /\ template_manager = PlainTemplateManager
    /\ InitWorld

\* ------------------------------------------------------------------ actions
GenerateExecutionPlan ==
    LET r == generate_execution_plan(deploy_ctx.service_definition, template_manager, deploy_ctx)
    IN  /\ last' = [op |-> "generate_execution_plan", raised |-> r.raised,
                    ret |-> r.ret, returned |-> r.returned]
        /\ UNCHANGED <<deploy_ctx, template_manager, stacks, exported, rules>>

CpuRequests == {-5, 0, 200, 255, 256, 257, 511, 512, 513, 600, 1023, 1024, 1025,
                2047, 2048, 2049, 4095, 4096, 4097, 9000}
MemoryRequests == {-5, 0, 400, 511, 512, 513, 900, 1023, 1024, 1025, 2047, 2048, 2049, 2050,
                   3072, 4096, 8192, 30719, 30720, 30721, 40000}
MemoryStrings == {IntToStr(512), IntToStr(4096), IntToStr(300), IntToStr(30720)}

\* mutant: the normalised value is written back into the context
TransformFargateCpu_stores ==
    \E v \in CpuRequests :
        LET r == transform_fargate_cpu(deploy_ctx.dict, v)
        IN  /\ last' = [op |-> "transform_fargate_cpu", arg |-> IntV(v), raised |-> r.raised,
                        candidate |-> r.candidate, value |-> r.value,
                        validation |-> r.validation]
            /\ deploy_ctx' = IF r.raised THEN deploy_ctx
                             ELSE [deploy_ctx EXCEPT !.dict["TASK_CPU"] = r.value]
            /\ UNCHANGED <<template_manager, stacks, exported, rules>>

TransformFargateCpu ==
    \E v \in CpuRequests :
        LET r == transform_fargate_cpu(deploy_ctx.dict, v)
        IN  /\ last' = [op |-> "transform_fargate_cpu", arg |-> IntV(v), raised |-> r.raised,
                        candidate |-> r.candidate, value |-> r.value,
                        validation |-> r.validation]
            /\ UNCHANGED <<deploy_ctx, template_manager, stacks, exported, rules>>

TransformFargateMemory ==
    \E v \in {IntV(i) : i \in MemoryRequests} \cup {StrV(m) : m \in MemoryStrings} :
        LET r == transform_fargate_memory(deploy_ctx.dict, v)
        IN  /\ last' = [op |-> "transform_fargate_memory", arg |-> v, raised |-> r.raised,
                        candidate |-> r.candidate, value |-> r.value,
                        validation |-> r.validation]
            /\ UNCHANGED <<deploy_ctx, template_manager, stacks, exported, rules>>

Next == GenerateExecutionPlan

Spec == Init /\ [][Next]_vars

NextFargate == TransformFargateCpu \/ TransformFargateMemory

SpecFargate == InitFargate /\ [][NextFargate]_vars

\* ============================================================ execution plan
PlanReturned == last.op = "generate_execution_plan" /\ ~last.raised
Mods == deploy_ctx.service_definition.service_modifications
MonitorLen(entry) == IF entry.has_monitor THEN entry.monitor_steps ELSE 0
IsMainStep(step) ==
    /\ step.kind = "CloudFormationDeploy"
    /\ step.template.type = "service"
    /\ step.stack_name = deploy_ctx.dict["STACK_NAME"].s
IsResourceStep(step) ==
    /\ step.kind = "CloudFormationDeploy"
    /\ step.template.type = "resource"
    /\ step.stack_name = deploy_ctx.dict["RESOURCE_STACK_NAME"].s
IsModificationStep(step) ==
    step.kind = "CloudFormationDeploy" /\ step.template.type = "modification"
IsMonitorStepOf(step, type, name) ==
    step.kind = "Monitor" /\ step.template.type = type /\ step.template.name = name
\* {ENVIRONMENT}-{APPLICATION}-{ROLE}-{mod}
ExpectedModificationName(mod) ==
    deploy_ctx.dict[ENVIRONMENT].s \o <<"-">> \o deploy_ctx.dict[APPLICATION].s \o <<"-">>
      \o deploy_ctx.dict[ROLE].s \o <<"-">> \o mod
\* where the resource step and the i-th modification step are expected
ResourcePos == 2 + MonitorLen(template_manager.service)
RECURSIVE ModificationPos(_)
ModificationPos(i) ==
    IF i = 1 THEN ResourcePos + (IF template_manager.resource THEN 1 ELSE 0)
    ELSE ModificationPos(i - 1) + 1 + MonitorLen(template_manager.modification[Mods[i - 1]])

\* C1 as stated: the main step is first and the resource step, when a resource
\* template is found, is the second step of the plan.
C1_ResourceSecond ==
    PlanReturned =>
        /\ IsMainStep(last.returned[1])
        /\ template_manager.resource =>
              Len(last.returned) >= 2 /\ IsResourceStep(last.returned[2])

\* C1 amended: the main step is first; when a resource template is found the
\* resource step comes right after the main step and the steps of the main
\* template's monitor plan, so it is second only when that plan is empty.
C1_ResourceAfterMainAndMonitor ==
    PlanReturned =>
        /\ IsMainStep(last.returned[1])
        /\ template_manager.resource =>
              /\ Len(last.returned) >= ResourcePos
              /\ IsResourceStep(last.returned[ResourcePos])
              /\ \A j \in 2..(ResourcePos - 1) :
                    IsMonitorStepOf(last.returned[j], "service",
                                    deploy_ctx.service_definition.service_type)

C1_Witness ==
    /\ PlanReturned
    /\ template_manager.resource
    /\ MonitorLen(template_manager.service) >= 1
    /\ IsResourceStep(last.returned[ResourcePos])
    /\ Len(Mods) >= 1

\* C2: the modification steps are, in order, one step per declared name
\* (duplicates included), all after the main and the resource step, each
\* immediately followed by the steps of its own monitor plan.
C2_ModificationOrder ==
    PlanReturned =>
        LET plan == last.returned
            modsteps == SelectSeq(plan, IsModificationStep)
        IN  /\ Len(modsteps) = Len(Mods)
            /\ \A i \in 1..Len(Mods) :
                  /\ modsteps[i].stack_name = ExpectedModificationName(Mods[i])
                  /\ modsteps[i].template.name = Mods[i]
                  /\ ModificationPos(i) <= Len(plan)
                  /\ plan[ModificationPos(i)] = modsteps[i]
                  /\ ModificationPos(i) > 1
                  /\ \A p \in 1..Len(plan) : IsResourceStep(plan[p]) => p < ModificationPos(i)
                  /\ \A j \in 1..MonitorLen(template_manager.modification[Mods[i]]) :
                        /\ ModificationPos(i) + j <= Len(plan)
                        /\ IsMonitorStepOf(plan[ModificationPos(i) + j], "modification", Mods[i])
            /\ Len(plan) = ModificationPos(Len(Mods) + 1) - 1

C2_Witness ==
    /\ PlanReturned
    /\ Len(Mods) = 2
    /\ Mods[1] = Mods[2]
    /\ MonitorLen(template_manager.modification[Mods[1]]) >= 1
    /\ template_manager.resource
    /\ IsModificationStep(last.returned[ModificationPos(2)])

\* C3: without any monitoring the plan has one step per modification plus the
\* main step plus the resource step when there is one, with the stack names
\* STACK_NAME, (RESOURCE_STACK_NAME), {ENVIRONMENT}-{APPLICATION}-{ROLE}-{mi}.
NoMonitoring ==
    /\ ~template_manager.service.has_monitor
    /\ \A i \in 1..Len(Mods) : ~template_manager.modification[Mods[i]].has_monitor
C3_PlanWithoutMonitoring ==
    (PlanReturned /\ NoMonitoring) =>
        LET plan == last.returned
            r == IF template_manager.resource THEN 1 ELSE 0
        IN  /\ Len(plan) = Len(Mods) + 1 + r
            /\ plan[1].stack_name = deploy_ctx.dict["STACK_NAME"].s
            /\ r = 1 => plan[2].stack_name = deploy_ctx.dict["RESOURCE_STACK_NAME"].s
            /\ \A i \in 1..Len(Mods) :
                  plan[1 + r + i].stack_name = ExpectedModificationName(Mods[i])

C3_Witness ==
    /\ PlanReturned /\ NoMonitoring
    /\ Mods = <<S_cache>>
    /\ template_manager.resource
    /\ Len(last.returned) = 3
    /\ IsMainStep(last.returned[1]) /\ IsResourceStep(last.returned[2])
    /\ last.returned[3].stack_name = S_prod \o <<"-">> \o S_foo \o <<"-">> \o S_api
                                       \o <<"-">> \o S_cache

\* C4: a failed lookup of the main template or of any declared modification
\* ends the call in an error with no plan handed to the caller; an absent
\* resource template is no error and the plan then has no resource step.
LookupFails ==
    \/ template_manager.service.found # "template"
    \/ \E i \in 1..Len(Mods) : template_manager.modification[Mods[i]].found # "template"
C4_NoPartialPlan ==
    last.op = "generate_execution_plan" =>
        /\ LookupFails => last.raised /\ last.returned = NoPlan
        /\ ~LookupFails =>
              /\ ~last.raised
              /\ Len(last.returned) >= 1
              /\ ~template_manager.resource =>
                    \A p \in 1..Len(last.returned) : last.returned[p].template.type # "resource"

C4_Witness ==
    /\ last.op = "generate_execution_plan"
    /\ last.raised
    /\ last.returned = NoPlan
    /\ Len(last.ret) >= 2
    /\ template_manager.service.found = "template"

\* =================================================================== fargate
UsingFargate == deploy_ctx.dict["USE_FARGATE"] = StrV(S_true)
CpuCall == last.op = "transform_fargate_cpu" /\ UsingFargate
MemoryCall == last.op = "transform_fargate_memory" /\ UsingFargate
ContextCpu == Get(deploy_ctx.dict, "TASK_CPU")
ContextMemory == Get(deploy_ctx.dict, "TASK_SOFT_MEMORY")

\* the compatibility table as the specification gives it: cpu -> memory in MB
CpuTiers == {256, 512, 1024, 2048, 4096}
CompatibleMemory(cpu) ==
    CASE cpu = 256 -> {512, 1024, 2048}
      [] cpu = 512 -> {1024 * k : k \in 1..4}
      [] cpu = 1024 -> {1024 * k : k \in 2..8}
      [] cpu = 2048 -> {1024 * k : k \in 4..16}
      [] cpu = 4096 -> {1024 * k : k \in 8..30}
\* a str that is the decimal numeral of n
IsNumeralOf(v, n) ==
    v.t = "str" /\ IsNumeral(v.s) /\ (Len(v.s) > 1 => v.s[1] # "0") /\ StrToNat(v.s) = n
IsCpuTier(v) == v.t = "int" /\ v.n \in CpuTiers
IsMemoryTier(v) == \E c \in CpuTiers : \E m \in CompatibleMemory(c) : IsNumeralOf(v, m)
PairInTable(cpu, memory) ==
    IsCpuTier(cpu) /\ \E m \in CompatibleMemory(cpu.n) : IsNumeralOf(memory, m)

\* C5 as stated: a returned value forms, with the other value held in the
\* context, an entry of the compatibility table, and the call fails for every
\* context in which the pair is not in the table.
C5_PairAlwaysValidated ==
    /\ CpuCall =>
          /\ ~last.raised => PairInTable(last.value, ContextMemory)
          /\ ~PairInTable(last.candidate, ContextMemory) => last.raised
    /\ (MemoryCall /\ last.candidate # None) =>
          /\ ~last.raised => PairInTable(ContextCpu, last.value)
          /\ ~PairInTable(ContextCpu, last.candidate) => last.raised

\* C5 amended: when the other value held in the context is a valid tier (a
\* memory of the valid-memory set, resp. an int cpu key of the table) the call
\* returns exactly when the pair is in the table and fails otherwise; when the
\* other value is absent or is not such a tier the pair is not validated and
\* the normalised value is returned.
C5_PairValidatedWhenOtherIsTier ==
    /\ CpuCall =>
          IF IsMemoryTier(ContextMemory)
          THEN /\ last.raised <=> ~PairInTable(last.candidate, ContextMemory)
               /\ ~last.raised => last.value = last.candidate
          ELSE ~last.raised /\ last.value = last.candidate
    /\ (MemoryCall /\ last.candidate # None) =>
          IF IsCpuTier(ContextCpu)
          THEN /\ last.raised <=> ~PairInTable(ContextCpu, last.candidate)
               /\ ~last.raised => last.value = last.candidate
          ELSE ~last.raised /\ last.value = last.candidate

C5_Witness ==
    /\ CpuCall
    /\ last.candidate = IntV(256)
    /\ ContextMemory = StrV(<<"4", "0", "9", "6">>)
    /\ last.raised /\ last.value = None

\* C6: cpu normalisation returns the smallest tier that is at least the
\* request, and 4096 for a request above 4096.
C6_CpuNormalisation ==
    CpuCall =>
        LET v == last.arg.n
            c == last.candidate
        IN  /\ IsCpuTier(c)
            /\ v > 4096 => c.n = 4096
            /\ v <= 4096 => c.n >= v /\ \A t \in CpuTiers : t >= v => c.n <= t
            /\ ~last.raised => last.value = c

C6_Witness ==
    /\ CpuCall /\ last.arg = IntV(600) /\ ~last.raised /\ last.value = IntV(1024)

\* C7: memory normalisation of an integer request v gives "512" for v <= 512,
\* "1024" for 512 < v < 1024 and otherwise the decimal string of the smallest
\* multiple of 1024 that is at least v, capped at 30720.
SmallestMultiple(v) ==
    CHOOSE m \in {1024 * k : k \in 1..64} : m >= v /\ m - 1024 < v
Min(a, b) == IF a < b THEN a ELSE b
C7_MemoryNormalisation ==
    (MemoryCall /\ last.arg.t = "int") =>
        LET v == last.arg.n
            c == last.candidate
        IN  /\ v <= 512 => c = StrV(<<"5", "1", "2">>)
            /\ (512 < v /\ v < 1024) => c = StrV(<<"1", "0", "2", "4">>)
            /\ v >= 1024 => IsNumeralOf(c, Min(30720, SmallestMultiple(v)))
            /\ ~last.raised => last.value = c

C7_Witness ==
    /\ MemoryCall /\ last.arg = IntV(2050) /\ ~last.raised
    /\ last.value = StrV(<<"3", "0", "7", "2">>)

\* ============================================================= rule priority
\* priorities of rules created by hand on the listener
ManualPriorities == {IntToStr(9), IntToStr(11), IntToStr(45), IntToStr(99)}
Faults == {"none", "does_stack_exist", "get_export_value", "describe_rules"}

InitPriority ==
    /\ deploy_ctx = Context(CHOOSE n \in Names : n.environment = S_prod,
                            Param(Absent, Absent, Absent), <<>>)
    /\ template_manager = PlainTemplateManager
    /\ stacks = [n \in StackNames |-> Absent]
    /\ exported \in BOOLEAN
    /\ rules \in {<<>>, <<DefaultRule>>}
    /\ last = [op |-> "init"]

Call(stack_name, fault, r) ==
    [op |-> "calculate_rule_priority", stack_name |-> stack_name, fault |-> fault,
     stored |-> stacks[stack_name], rules |-> rules,
     raised |-> r.raised, value |-> r.value, described |-> r.described,
     swallowed |-> r.swallowed]

\* deployment of a stack that does not exist yet: the priority is calculated,
\* stored as the stack's RulePriority parameter and registered as a listener rule
DeployNewStack ==
    \E stack_name \in StackNames, fault \in Faults :
        LET r == calculate_rule_priority(stacks[stack_name], exported, rules, fault)
        IN  /\ stacks[stack_name] = Absent
            /\ last' = Call(stack_name, fault, r)
            /\ stacks' = IF r.raised THEN stacks ELSE [stacks EXCEPT ![stack_name] = r.value]
            /\ rules' = IF r.raised \/ ~exported THEN rules
                        ELSE Append(rules, [Priority |-> r.value])
            /\ UNCHANGED <<deploy_ctx, template_manager, exported>>

\* redeployment of an existing stack with the priority that is calculated for it
Redeploy ==
    \E stack_name \in StackNames, fault \in Faults :
        LET r == calculate_rule_priority(stacks[stack_name], exported, rules, fault)
        IN  /\ stacks[stack_name] # Absent
            /\ last' = Call(stack_name, fault, r)
            /\ stacks' = IF r.raised THEN stacks ELSE [stacks EXCEPT ![stack_name] = r.value]
            /\ UNCHANGED <<deploy_ctx, template_manager, exported, rules>>

\* other rules of the listener are added, removed and changed by hand
OwnedByStack(rule) == \E n \in StackNames : stacks[n] = rule.Priority
AddRule ==
    \E p \in ManualPriorities :
        /\ Len(rules) < MaxRules
        /\ \A i \in 1..Len(rules) : rules[i].Priority # StrV(p)
        /\ rules' = Append(rules, [Priority |-> StrV(p)])
        /\ last' = [op |-> "add_rule"]
        /\ UNCHANGED <<deploy_ctx, template_manager, stacks, exported>>

RemoveRule ==
    \E i \in 1..Len(rules) :
        /\ rules[i] # DefaultRule /\ ~OwnedByStack(rules[i])
        /\ rules' = SubSeq(rules, 1, i - 1) \o SubSeq(rules, i + 1, Len(rules))
        /\ last' = [op |-> "remove_rule"]
        /\ UNCHANGED <<deploy_ctx, template_manager, stacks, exported>>

ChangeRule ==
    \E i \in 1..Len(rules), p \in ManualPriorities :
        /\ rules[i] # DefaultRule /\ ~OwnedByStack(rules[i])
        /\ \A j \in 1..Len(rules) : rules[j].Priority # StrV(p)
        /\ rules' = [rules EXCEPT ![i] = [Priority |-> StrV(p)]]
        /\ last' = [op |-> "change_rule"]
        /\ UNCHANGED <<deploy_ctx, template_manager, stacks, exported>>

NextPriority == DeployNewStack \/ Redeploy \/ AddRule \/ RemoveRule \/ ChangeRule

SpecPriority == InitPriority /\ [][NextPriority]_vars

PriorityCall == last.op = "calculate_rule_priority"
StackExisted == PriorityCall /\ last.stored # Absent
\* the numeric priorities of the rules that are not "default"
NonDefaultPriorities(rs) ==
    {StrToNat(rs[i].Priority.s) : i \in {j \in 1..Len(rs) : rs[j].Priority # StrV(S_default)}}
MaxOf(S) == CHOOSE m \in S : \A x \in S : x <= m

\* C8: for a stack that already exists the call returns the RulePriority
\* parameter stored on the stack, without querying the listener rules, so a
\* redeploy keeps the priority the stack had, whatever rules exist.
C8_ExistingStackKeepsPriority ==
    StackExisted =>
        /\ last.fault # "does_stack_exist" =>
              /\ ~last.raised
              /\ last.value = last.stored
              /\ ~last.described
        /\ stacks[last.stack_name] = last.stored

C8_Witness ==
    /\ StackExisted /\ ~last.raised
    /\ last.value = last.stored
    /\ last.rules # <<>>
    /\ \E p \in NonDefaultPriorities(last.rules) : p > StrToNat(last.stored.s)
    /\ \E i \in 1..Len(last.rules) : last.rules[i].Priority = last.stored

\* C9: for a stack that does not exist the call returns 31 when the listener
\* has no rules or only the "default" rule, and otherwise the maximum numeric
\* priority of the rules that are not "default", plus one.
C9_MaxPlusOne ==
    (PriorityCall /\ last.stored = Absent /\ last.fault = "none" /\ exported) =>
        /\ ~last.raised
        /\ IsNumeralOf(last.value,
                       IF NonDefaultPriorities(last.rules) = {} THEN 31
                       ELSE MaxOf(NonDefaultPriorities(last.rules)) + 1)

\* C10: a failure of the ListenerARN export lookup or of the listener-rule
\* query makes the call fail; no priority is returned from such a run.
C10_LookupFailureFails ==
    (PriorityCall /\ last.stored = Absent /\ exported
       /\ last.fault \in {"get_export_value", "describe_rules"}) =>
        last.raised /\ last.value = None

\* ========================================================= context creation
\* create_deploy_context: APPLICATION and ROLE are arguments, no service
\* definition is read
NoServiceDefinition ==
    [application |-> <<>>, role |-> <<>>, service_type |-> <<>>, docker_registry |-> Absent,
     deployment_parameters |-> EmptyDict, service_modifications |-> <<>>]

create_deploy_context(application, role, environment, defaults, environ, now) ==
    LET d0 == DeployContextInit(defaults, environ, environment)
        d1 == [d0 EXCEPT ![APPLICATION] = StrV(application), ![ROLE] = StrV(role)]
        ev == _initialize_environment_variables(d1, now)
    IN  [raised |-> ev.raised, dict |-> ev.dict, attr |-> ev.attr,
         service_definition |-> NoServiceDefinition]

\* before a factory has returned there is no context
NoContext == [dict |-> EmptyDict, attr |-> EmptyDict, service_definition |-> NoServiceDefinition]

\* a layer that supplies the names in keys, each with a value that tells the
\* layer: "f" defaults file, "e" process environment, "b" base deployment
\* parameters, "o"+initial for the override object of an environment
Layer(keys, tag) == [k \in Keys |-> IF k \in keys THEN StrV(tag) ELSE Absent]
DefaultsFiles ==
    {Layer(ks, <<"f">>) : ks \in SUBSET {ENVIRONMENT, REGION, DOCKER_REGISTRY}}
Environs ==
    {Layer(ks, <<"e">>) : ks \in SUBSET {ENVIRONMENT, APPLICATION, REGION}}
BaseParameters ==
    {Layer(ks, <<"b">>) : ks \in SUBSET {APPLICATION, REGION, "STACK_NAME"}}
S_ci == <<"c", "i">>
S_dev == <<"d", "e", "v">>
EnvObject(environment) == Layer({REGION, "TASK_CPU"}, <<"o", Head(environment)>>)
EnvParameters ==
    {[environment \in D |-> EnvObject(environment)] :
        D \in {{}, {S_prod}, {S_dev}, {S_prod, S_ci}}}
Registries == {Absent, StrV(<<"r">>)}

InitContext ==
    /\ deploy_ctx = NoContext
    /\ template_manager = PlainTemplateManager
    /\ InitWorld

CreateDeployContextArtifact ==
    \E names \in Names, defaults \in DefaultsFiles, environ \in Environs,
       params \in BaseParameters, env_parameters \in EnvParameters, registry \in Registries :
        LET json == [ServiceJson(names, params, <<>>) EXCEPT
                        !.env_parameters = env_parameters, !.registry = registry]
            r == create_deploy_context_artifact(json, Absent, names.environment, defaults,
                                                environ, S_date)
            base == _initialize_artifact_directory(
                        DeployContextInit(defaults, environ, names.environment), json, Absent).dict
        IN  /\ last.op = "init"
            /\ last' = [op |-> "create_deploy_context_artifact", raised |-> r.raised, base |-> base,
                        environment |-> names.environment, defaults |-> defaults,
                        environ |-> environ, json |-> json, now |-> S_date]
            /\ deploy_ctx' = IF r.raised THEN deploy_ctx
                             ELSE [dict |-> r.dict, attr |-> r.attr,
                                   service_definition |-> r.service_definition]
            /\ UNCHANGED <<template_manager, stacks, exported, rules>>

CreateDeployContext ==
    \E names \in Names, defaults \in DefaultsFiles, environ \in Environs :
        LET r == create_deploy_context(names.application, S_api, names.environment, defaults,
                                       environ, S_date)
            base == [DeployContextInit(defaults, environ, names.environment) EXCEPT
                        ![APPLICATION] = StrV(names.application), ![ROLE] = StrV(S_api)]
        IN  /\ last.op = "init"
            /\ last' = [op |-> "create_deploy_context", raised |-> r.raised, base |-> base,
                        environment |-> names.environment, defaults |-> defaults,
                        environ |-> environ, application |-> names.application,
                        role |-> S_api, now |-> S_date]
            /\ deploy_ctx' = IF r.raised THEN deploy_ctx
                             ELSE [dict |-> r.dict, attr |-> r.attr,
                                   service_definition |-> r.service_definition]
            /\ UNCHANGED <<template_manager, stacks, exported, rules>>

\* _initialize_environment_variables called on a context that the constructor
\* has built: APPLICATION, ROLE and REGION are there when the defaults file
\* holds them
InitializeEnvironmentVariables ==
    \E names \in Names,
       defaults \in {Layer(ks, <<"f">>) : ks \in SUBSET {APPLICATION, ROLE, REGION}} :
        LET base == DeployContextInit(defaults, EmptyDict, names.environment)
            r == _initialize_environment_variables(base, S_date)
        IN  /\ last.op = "init"
            /\ last' = [op |-> "_initialize_environment_variables", raised |-> r.raised,
                        base |-> base, environment |-> names.environment,
                        defaults |-> defaults, environ |-> EmptyDict, now |-> S_date]
            /\ deploy_ctx' = IF r.raised THEN deploy_ctx
                             ELSE [dict |-> r.dict, attr |-> r.attr,
                                   service_definition |-> NoServiceDefinition]
            /\ UNCHANGED <<template_manager, stacks, exported, rules>>

NextContext ==
    CreateDeployContextArtifact \/ CreateDeployContext \/ InitializeEnvironmentVariables

SpecContext == InitContext /\ [][NextContext]_vars

\* -------------------------------------------------------------------- layers
ContextCreated == last.op = "create_deploy_context_artifact" /\ ~last.raised
ComputedKeys == {"VPCAPP", "DEPLOY_DATE"}
                \cup {env_variables[i].variable : i \in 1..Len(env_variables)}
AliasTemplate(k) ==
    env_variables[CHOOSE i \in 1..Len(env_variables) : env_variables[i].variable = k].template
\* what each layer supplies for the context that was created
BuiltInLayer == [EmptyDict EXCEPT ![ENVIRONMENT] = StrV(Lower(last.environment))]
ServiceLayer ==
    LET sd == deploy_ctx.service_definition
    IN  [k \in Keys |->
            IF sd.deployment_parameters[k] # Absent THEN sd.deployment_parameters[k]
            ELSE IF k = APPLICATION THEN StrV(last.json.application)
            ELSE IF k = ROLE THEN StrV(last.json.role)
            ELSE IF k = DOCKER_REGISTRY THEN sd.docker_registry
            ELSE Absent]
ComputedValue(k) ==
    IF k = "VPCAPP" THEN StrV(CutAtDash(deploy_ctx.dict[APPLICATION].s))
    ELSE IF k = "DEPLOY_DATE" THEN StrV(last.now)
    ELSE StrV(Format(AliasTemplate(k), deploy_ctx.dict))
HighestLayerValue(k) ==
    IF k \in ComputedKeys THEN ComputedValue(k)
    ELSE IF ServiceLayer[k] # Absent THEN ServiceLayer[k]
    ELSE IF last.environ[k] # Absent THEN last.environ[k]
    ELSE IF last.defaults[k] # Absent THEN last.defaults[k]
    ELSE BuiltInLayer[k]
Supplies(layer, k) ==
    \/ layer = "built_in" /\ BuiltInLayer[k] # Absent
    \/ layer = "defaults" /\ last.defaults[k] # Absent
    \/ layer = "environ" /\ last.environ[k] # Absent
    \/ layer = "service" /\ ServiceLayer[k] # Absent
    \/ layer = "computed" /\ k \in ComputedKeys
SuppliedBy(k) ==
    {layer \in {"built_in", "defaults", "environ", "service", "computed"} : Supplies(layer, k)}

Resolved ==
    last.op \in {"create_deploy_context_artifact", "create_deploy_context"} /\ ~last.raised
\* the part of str before its first '-', all of str when it has none
IsFirstPart(p, str) ==
    /\ Len(p) <= Len(str)
    /\ p = SubSeq(str, 1, Len(p))
    /\ \A i \in 1..Len(p) : p[i] # "-"
    /\ Len(p) < Len(str) => str[Len(p) + 1] = "-"

\* C12: after resolution STACK_NAME is {ENVIRONMENT}-{APPLICATION}-{ROLE},
\* EnvName and ECS_SERVICE_STACK_NAME equal STACK_NAME, RESOURCE_STACK_NAME is
\* STACK_NAME followed by "-resources", VPCAPP is the application name cut at
\* its first '-', VPC_STACK_NAME is {ENVIRONMENT}-{VPCAPP}-vpc, and the
\* modification stack name of mod is STACK_NAME followed by "-" and mod.
C12_DerivedNames ==
    Resolved =>
        LET d == deploy_ctx.dict
            dash == <<"-">>
        IN  /\ d["STACK_NAME"]
                 = StrV(d[ENVIRONMENT].s \o dash \o d[APPLICATION].s \o dash \o d[ROLE].s)
            /\ d["EnvName"] = d["STACK_NAME"]
            /\ d["ECS_SERVICE_STACK_NAME"] = d["STACK_NAME"]
            /\ d["RESOURCE_STACK_NAME"]
                 = StrV(d["STACK_NAME"].s \o <<"-", "r", "e", "s", "o", "u", "r", "c", "e", "s">>)
            /\ d["VPCAPP"].t = "str" /\ IsFirstPart(d["VPCAPP"].s, d[APPLICATION].s)
            /\ d["VPC_STACK_NAME"]
                 = StrV(d[ENVIRONMENT].s \o dash \o d["VPCAPP"].s \o <<"-", "v", "p", "c">>)
            /\ \A mod \in ModNames :
                  generate_modification_stack_name(deploy_ctx, mod)
                    = d["STACK_NAME"].s \o dash \o mod

C12_Witness ==
    /\ Resolved
    /\ deploy_ctx.dict[APPLICATION] = StrV(S_foo_bar)
    /\ deploy_ctx.dict["VPCAPP"] = StrV(S_foo)
    /\ deploy_ctx.dict["STACK_NAME"]
         = StrV(<<"c", "i", "-", "f", "o", "o", "-", "b", "a", "r", "-", "a", "p", "i">>)
    /\ deploy_ctx.dict["VPC_STACK_NAME"] = StrV(<<"c", "i", "-", "f", "o", "o", "-", "v", "p", "c">>)
    /\ generate_modification_stack_name(deploy_ctx, S_cache)
         = <<"c", "i", "-", "f", "o", "o", "-", "b", "a", "r", "-", "a", "p", "i",
             "-", "c", "a", "c", "h", "e">>

\* ---------------------------------------------------------- alias resolution
Resolution ==
    last.op \in {"create_deploy_context_artifact", "create_deploy_context",
                 "_initialize_environment_variables"}
BaseVariables == {ENVIRONMENT, APPLICATION, ROLE, REGION}
TemplateRefs(template) == {template[i].ref : i \in 1..Len(template)} \ {""}

\* C13: evaluating the alias table succeeds exactly when ENVIRONMENT,
\* APPLICATION, ROLE and REGION are all present after the earlier layers; then
\* every name an alias template references has a value; otherwise resolution
\* fails, no context is yielded and no alias is given a value.
C13_ResolutionSucceedsIffBasePresent ==
    Resolution =>
        /\ ~last.raised <=> \A k \in BaseVariables : last.base[k] # Absent
        /\ last.raised => deploy_ctx = NoContext
        /\ ~last.raised =>
              \A i \in 1..Len(env_variables) :
                 /\ deploy_ctx.dict[env_variables[i].variable] # Absent
                 /\ \A ref \in TemplateRefs(env_variables[i].template) :
                       deploy_ctx.dict[ref] # Absent

C13_Witness ==
    /\ last.op = "create_deploy_context_artifact"
    /\ last.raised
    /\ last.base[REGION] = Absent
    /\ \A k \in BaseVariables \ {REGION} : last.base[k] # Absent
    /\ deploy_ctx = NoContext

\* ----------------------------------------------------- deployment parameters
\* the environment the service definition is parsed for
ServiceEnvironment ==
    IF last.environ[ENVIRONMENT] # Absent THEN last.environ[ENVIRONMENT].s
    ELSE IF last.defaults[ENVIRONMENT] # Absent THEN last.defaults[ENVIRONMENT].s
    ELSE Lower(last.environment)

\* C15: the parsed deployment parameters are the base mapping overridden key
\* by key by the "E-deployment-parameters" object of the environment E the
\* definition is parsed for; objects of other environments have no effect and
\* without an object for E the result is the base mapping.
C15_EnvironmentOverride ==
    ContextCreated =>
        LET E == ServiceEnvironment
            json == last.json
            parsed == deploy_ctx.service_definition.deployment_parameters
        IN  \A k \in Keys :
               parsed[k] = IF E \in DOMAIN json.env_parameters
                              /\ json.env_parameters[E][k] # Absent
                           THEN json.env_parameters[E][k]
                           ELSE json.deployment_parameters[k]

C15_Witness ==
    /\ ContextCreated
    /\ ServiceEnvironment = S_ci
    /\ DOMAIN last.json.env_parameters = {S_prod, S_ci}
    /\ last.json.deployment_parameters[REGION] = StrV(<<"b">>)
    /\ last.json.deployment_parameters["STACK_NAME"] = StrV(<<"b">>)
    /\ last.json.deployment_parameters["TASK_CPU"] = Absent
    /\ deploy_ctx.service_definition.deployment_parameters[REGION] = StrV(<<"o", "c">>)
    /\ deploy_ctx.service_definition.deployment_parameters["TASK_CPU"] = StrV(<<"o", "c">>)
    /\ deploy_ctx.service_definition.deployment_parameters["STACK_NAME"] = StrV(<<"b">>)

\* ================================================================ _expandvars
\* \w of the regular expression
WordChars == {"A", "_"} \cup {Digits[i] : i \in 1..10}
IsWord(c) == c \in WordChars

\* the names the texts of the model can spell are A and AA
KeyOf(name) == IF name = <<"A">> THEN "A" ELSE IF name = <<"A", "A">> THEN "AA" ELSE ""
\* self.get(name, fallback)
GetOr(d, name, fallback) ==
    IF KeyOf(name) # "" /\ d[KeyOf(name)] # Absent THEN d[KeyOf(name)] ELSE fallback

\* \w+ from position i: the end of the longest run of word characters
WordEnd(path, i) ==
    CHOOSE j \in i..Len(path) :
        /\ \A k \in i..j : IsWord(path[k])
        /\ j = Len(path) \/ ~IsWord(path[j + 1])
\* [^}]*\} from position i: the first '}' at or after i
HasClose(path, i) == \E j \in i..Len(path) : path[j] = "}"
FirstClose(path, i) ==
    CHOOSE j \in i..Len(path) : path[j] = "}" /\ \A k \in i..(j - 1) : path[k] # "}"

\* the match of reVar that starts at position i, if there is one:
\* (?<!\\)\$(\w+|\{([^}]*)\}), the look-behind only with skip_escaped
NoMatch == [found |-> FALSE, end |-> 0, group1 |-> <<>>, group2 |-> None]
Match(path, i, skip_escaped) ==
    IF \/ path[i] # "$"
       \/ skip_escaped /\ i > 1 /\ path[i - 1] = "\\"
       \/ i = Len(path)
    THEN NoMatch
    ELSE IF IsWord(path[i + 1])
    THEN [found |-> TRUE, end |-> WordEnd(path, i + 1),
          group1 |-> SubSeq(path, i + 1, WordEnd(path, i + 1)), group2 |-> None]
    ELSE IF path[i + 1] = "{" /\ HasClose(path, i + 2)
    THEN [found |-> TRUE, end |-> FirstClose(path, i + 2),
          group1 |-> SubSeq(path, i + 1, FirstClose(path, i + 2)),
          group2 |-> StrV(SubSeq(path, i + 2, FirstClose(path, i + 2) - 1))]
    ELSE NoMatch

\* replace_var: self.get(m.group(2) or m.group(1), m.group(0) if default is None else default)
replace_var(d, path, i, m, default) ==
    GetOr(d, IF m.group2 # None /\ m.group2.s # <<>> THEN m.group2.s ELSE m.group1,
          IF default = None THEN StrV(SubSeq(path, i, m.end)) ELSE default)

\* re.sub(reVar, replace_var, path) from position i on: a replacement that is
\* None counts as the empty string, any other value that is not a string
\* makes re.sub raise TypeError
Cons(str, r) == IF r.raised THEN r ELSE [raised |-> FALSE, value |-> str \o r.value]
RECURSIVE Sub(_, _, _, _, _)
Sub(d, path, i, default, skip_escaped) ==
    IF i > Len(path) THEN [raised |-> FALSE, value |-> <<>>]
    ELSE LET m == Match(path, i, skip_escaped)
         IN  IF ~m.found THEN Cons(<<path[i]>>, Sub(d, path, i + 1, default, skip_escaped))
             ELSE LET r == replace_var(d, path, i, m, default)
                  IN  IF r.t \notin {"str", "none"} THEN [raised |-> TRUE, value |-> <<>>]
                      ELSE Cons(r.s, Sub(d, path, m.end + 1, default, skip_escaped))

\* _expandvars
_expandvars(d, path, default, skip_escaped) == Sub(d, path, 1, default, skip_escaped)

S_bob == <<"b", "o", "b">>
TextAlphabet == {"$", "{", "}", "\\", "A", " "}
Texts == SeqsUpTo(TextAlphabet, MaxText)
ExpandDefaults == {None, StrV(<<"w">>)}
\* deployment parameters that define the variables A and AA
ExpandParameters ==
    {[EmptyDict EXCEPT !["A"] = a, !["AA"] = aa] :
        a \in {Absent, StrV(S_bob)}, aa \in {Absent, IntV(256)}}

InitExpand ==
    /\ \E params \in ExpandParameters :
          deploy_ctx = Context(CHOOSE n \in Names : n.environment = S_prod, params, <<>>)
    /\ template_manager = PlainTemplateManager
    /\ InitWorld

ExpandvarsOver(texts) ==
    \E path \in texts, default \in ExpandDefaults, skip_escaped \in BOOLEAN :
        LET r == _expandvars(deploy_ctx.dict, path, default, skip_escaped)
        IN  /\ last' = [op |-> "_expandvars", path |-> path, default |-> default,
                        skip_escaped |-> skip_escaped, raised |-> r.raised, value |-> r.value]
            /\ UNCHANGED <<deploy_ctx, template_manager, stacks, exported, rules>>

\* one call with every text; the call leaves the state as it is, so calls that
\* follow one another are independent
Expandvars == last.op = "init" /\ ExpandvarsOver(Texts)

NextExpand == Expandvars

SpecExpand == InitExpand /\ [][NextExpand]_vars

\* --------------------------------------------------------- expansion claims
ExpandCall == last.op = "_expandvars"
HasDollar(str) == \E i \in 1..Len(str) : str[i] = "$"
FirstDollar(str) == CHOOSE i \in 1..Len(str) : str[i] = "$" /\ \A k \in 1..(i - 1) : str[k] # "$"
\* text[i..j] is a reference $NAME: NAME is the whole run of word characters
IsNameRef(text, i, j) ==
    /\ j > i
    /\ \A k \in (i + 1)..j : IsWord(text[k])
    /\ j = Len(text) \/ ~IsWord(text[j + 1])
\* text[i..j] is a reference ${NAME}: NAME is not empty and holds no '}' or '$'
IsBraceRef(text, i, j) ==
    /\ j > i + 2
    /\ text[i + 1] = "{"
    /\ text[j] = "}"
    /\ \A k \in (i + 2)..(j - 1) : text[k] \notin {"}", "$"}
RefName(text, i, j) ==
    IF text[i + 1] = "{" THEN SubSeq(text, i + 2, j - 1) ELSE SubSeq(text, i + 1, j)
\* the expansion of the text that follows a reference
Expanded(post) == _expandvars(deploy_ctx.dict, post, last.default, last.skip_escaped)

\* C14: a text without '$' is returned unchanged.  For the first reference
\* $NAME or ${NAME} of a text, the text before it is unchanged and the
\* reference is replaced by the context value of NAME when NAME is resolved,
\* left as written when NAME is unresolved and no default is given, replaced
\* by the default when one is given, and left as literal text when
\* skip_escaped is requested and a backslash precedes it; the text after the
\* reference is expanded in the same way.  A '$' that starts no reference
\* stays as it is.
C14_Expansion ==
    ExpandCall =>
        LET text == last.path
            i == FirstDollar(text)
            pre == SubSeq(text, 1, i - 1)
            escaped == last.skip_escaped /\ i > 1 /\ text[i - 1] = "\\"
        IN  IF ~HasDollar(text) THEN ~last.raised /\ last.value = text
            ELSE /\ \A j \in (i + 1)..Len(text) :
                      (IsNameRef(text, i, j) \/ IsBraceRef(text, i, j)) =>
                          LET ref == SubSeq(text, i, j)
                              key == KeyOf(RefName(text, i, j))
                              resolved == key # "" /\ deploy_ctx.dict[key] # Absent
                              replacement ==
                                  IF escaped THEN ref
                                  ELSE IF resolved THEN FormatValue(deploy_ctx.dict[key])
                                  ELSE IF last.default = None THEN ref
                                  ELSE last.default.s
                              post == Expanded(SubSeq(text, j + 1, Len(text)))
                          IN  /\ ~last.raised
                              /\ last.value = pre \o replacement \o post.value
                 /\ (i = Len(text) \/ (~IsWord(text[i + 1]) /\ text[i + 1] # "{")) =>
                       /\ ~last.raised
                       /\ last.value = pre \o <<"$">>
                                         \o Expanded(SubSeq(text, i + 1, Len(text))).value

\* ======================================================= use of the context
\* the operations that are given a resolved context, in any order
GenerateModificationStackName ==
    \E mod_name \in ModNames :
        /\ last' = [op |-> "generate_modification_stack_name", mod_name |-> mod_name,
                    value |-> generate_modification_stack_name(deploy_ctx, mod_name)]
        /\ UNCHANGED <<deploy_ctx, template_manager, stacks, exported, rules>>

GenerateModificationResourceStackName ==
    \E mod_name \in ModNames :
        /\ last' = [op |-> "generate_modification_resource_stack_name", mod_name |-> mod_name,
                    value |-> generate_modification_resource_stack_name(deploy_ctx, mod_name)]
        /\ UNCHANGED <<deploy_ctx, template_manager, stacks, exported, rules>>

SampleTexts == {<<"$", "A">>, <<"$", "{", "A", "}", " ", "$", "A", "A">>, <<"\\", "$", "A">>}
ExpandvarsSample == ExpandvarsOver(SampleTexts)

InitReadOnly ==
    /\ \E params \in {[Param(StrV(S_true), IntV(256), StrV(IntToStr(512))) EXCEPT
                          !["A"] = StrV(S_bob)],
                      Param(StrV(S_true), Absent, Absent)} :
          deploy_ctx = Context(CHOOSE n \in Names : n.environment = S_prod, params,
                               <<S_cache>>)
    /\ template_manager \in
          {PlainTemplateManager,
           [PlainTemplateManager EXCEPT
               !.resource = TRUE,
               !.service = [found |-> "template", has_monitor |-> TRUE,
                            monitor_steps |-> MaxMonitorSteps]]}
    /\ InitWorld

NextReadOnly ==
    \/ GenerateExecutionPlan
    \/ GenerateModificationStackName
    \/ GenerateModificationResourceStackName
    \/ ExpandvarsSample
    \/ TransformFargateCpu
    \/ TransformFargateMemory
    \/ DeployNewStack
    \/ Redeploy

SpecReadOnly == InitReadOnly /\ [][NextReadOnly]_vars

\* C16: generate_execution_plan, generate_modification_stack_name,
\* generate_modification_resource_stack_name, _expandvars,
\* transform_fargate_cpu, transform_fargate_memory and calculate_rule_priority,
\* in any order and any number of times, leave every variable of the resolved
\* context as it was, and every step of a plan carries that context.
C16_ContextReadOnly ==
    [][/\ deploy_ctx' = deploy_ctx
       /\ (last'.op = "generate_execution_plan" /\ ~last'.raised) =>
             \A i \in 1..Len(last'.returned) : last'.returned[i].deploy_ctx = deploy_ctx]_vars

C16_Witness ==
    /\ PlanReturned
    /\ Len(last.returned) >= 3
    /\ \A i \in 1..Len(last.returned) : last.returned[i].deploy_ctx = deploy_ctx
    /\ \A n \in StackNames : stacks[n] # Absent
    /\ deploy_ctx.dict["TASK_CPU"] = IntV(256)

\* ====================================================== priority allocation
\* deployments of distinct new stacks on a listener that starts with only the
\* default rule; the stacks are named 1, 2, ... and deployed in that order,
\* each allocated priority is registered before the next deployment
AllocationStacks == {IntToStr(i) : i \in 1..MaxStacks}

InitAllocation ==
    /\ deploy_ctx = Context(CHOOSE n \in Names : n.environment = S_prod,
                            Param(Absent, Absent, Absent), <<>>)
    /\ template_manager = PlainTemplateManager
    /\ stacks = [n \in AllocationStacks |-> Absent]
    /\ exported = TRUE
    /\ rules = <<DefaultRule>>
    /\ last = [op |-> "init"]

DeployNextStack ==
    \E i \in 1..MaxStacks :
        /\ stacks[IntToStr(i)] = Absent
        /\ \A j \in 1..(i - 1) : stacks[IntToStr(j)] # Absent
        /\ \E r \in {calculate_rule_priority(stacks[IntToStr(i)], exported, rules, "none")} :
              /\ last' = Call(IntToStr(i), "none", r)
              /\ stacks' = IF r.raised THEN stacks ELSE [stacks EXCEPT ![IntToStr(i)] = r.value]
              /\ rules' = IF r.raised THEN rules ELSE Append(rules, [Priority |-> r.value])
        /\ UNCHANGED <<deploy_ctx, template_manager, exported>>

NextAllocation == DeployNextStack

SpecAllocation == InitAllocation /\ [][NextAllocation]_vars

\* C17: from a listener with only the default rule, in a sequence of
\* deployments of distinct new stacks each registered before the next, every
\* call returns a priority that is greater than every priority of an existing
\* rule that is not "default", and no two stacks hold the same priority.
C17_FreshPriority ==
    /\ (PriorityCall /\ last.stored = Absent) =>
          /\ ~last.raised
          /\ \A p \in NonDefaultPriorities(last.rules) : StrToNat(last.value.s) > p
    /\ \A a, b \in DOMAIN stacks :
          (a # b /\ stacks[a] # Absent /\ stacks[b] # Absent) => stacks[a] # stacks[b]

\* ============================================================ fargate tiers
\* the valid-memory set in MB: 0.5 GB and 1 GB to 30 GB in steps of 1 GB
ValidMemory == {512} \cup {1024 * k : k \in 1..30}

\* C18: with USE_FARGATE = "true" every value transform_fargate_cpu returns
\* is one of 256, 512, 1024, 2048, 4096 and every value
\* transform_fargate_memory returns is a string of the valid-memory set,
\* whatever integer is requested; a requested string that is not in the
\* valid-memory set makes the call fail.
C18_ReturnedValuesAreTiers ==
    /\ (CpuCall /\ ~last.raised) =>
          last.value.t = "int" /\ last.value.n \in {256, 512, 1024, 2048, 4096}
    /\ (MemoryCall /\ ~last.raised) =>
          \E m \in ValidMemory : IsNumeralOf(last.value, m)
    /\ (MemoryCall /\ last.arg.t = "str"
          /\ ~\E m \in ValidMemory : IsNumeralOf(last.arg, m)) => last.raised

C18_Witness ==
    /\ MemoryCall /\ last.arg = IntV(40000) /\ ~last.raised
    /\ last.value = StrV(<<"3", "0", "7", "2", "0">>)

====
